---- MODULE Spec2Model ----
(***************************************************************************)
(* Model of plotter_backend_text (src/src/lib.rs): the PixelState merge   *)
(* rule, the TextDrawingBackend canvas and its DrawingBackend operations.  *)
(*                                                                         *)
(* A panic (index out of bounds, arithmetic overflow with overflow checks  *)
(* on) ends the run of the program: the operation's result is "panic",    *)
(* the cells written before the panic stay written, and no further        *)
(* operation is taken.                                                     *)
(***************************************************************************)
EXTENDS Integers, Sequences, FiniteSets, TLC

VARIABLES
    size_x,           \* TextDrawingBackend.size_x
    size_y,           \* TextDrawingBackend.size_y
    pixels,           \* TextDrawingBackend.pixels, row-major; cell i is pixels[i+1]
    overflow_checks,  \* build profile: TRUE = arithmetic overflow panics (debug)
    prev,             \* pixels before the last operation
    last,             \* the last operation: [op, args, res]
    out,              \* characters the last present() wrote to its handle
    presented,        \* successful present() calls in a row up to now
    aborted,          \* TRUE once an operation has panicked
    nops              \* number of operations taken

vars == <<size_x, size_y, pixels, overflow_checks, prev, last, out, presented, aborted,
          nops>>

----------------------------------------------------------------------------
(* Bounds of the model *)

MaxOps == 2        \* operations per run
MaxCoord == 4      \* largest column handed to an operation
MaxRow == 2        \* largest row handed to an operation

(* Canvas sizes the model constructs: (width, height) *)
Sizes == { <<4, 2>>, <<2, 1>>, <<2, 0>>, <<0, 1>> }

(* The literal row stride of draw_line and draw_text *)
Stride == 100

----------------------------------------------------------------------------
(* PixelState: a pair <<variant, payload>> *)

Empty == <<"Empty", "">>
HLine == <<"HLine", "">>
VLine == <<"VLine", "">>
Cross == <<"Cross", "">>
Pixel == <<"Pixel", "">>
Text(c) == <<"Text", c>>
Circle(filled) == <<"Circle", IF filled THEN "filled" ELSE "hollow">>

Chars == {"h", "i", "é"}

(* str::len of one character: its UTF-8 byte length *)
Utf8Len(c) == IF c = "é" THEN 2 ELSE 1

PixelState ==
    {Empty, HLine, VLine, Cross, Pixel}
        \cup {Text(c) : c \in Chars} \cup {Circle(f) : f \in BOOLEAN}

IsCircle(s) == s[1] = "Circle"
IsText(s) == s[1] = "Text"

(* to_char with the glyph the enum's doc comment gives for Pixel *)
to_char_x(s) ==
    CASE s = Empty -> " "
      [] s = HLine -> "-"
      [] s = VLine -> "|"
      [] s = Cross -> "+"
      [] s = Pixel -> "x"
      [] IsText(s) -> s[2]
      [] IsCircle(s) -> IF s[2] = "filled" THEN "@" ELSE "O"

(* PixelState::to_char *)
to_char(s) ==
    CASE s = Empty -> " "
      [] s = HLine -> "-"
      [] s = VLine -> "|"
      [] s = Cross -> "+"
      [] s = Pixel -> "."
      [] IsText(s) -> s[2]
      [] IsCircle(s) -> IF s[2] = "filled" THEN "@" ELSE "O"

(* PixelState::update with every match arm below the Cross arms dropped *)
update_last_wins(cur, new) ==
    IF (cur = HLine /\ new = VLine) \/ (cur = VLine /\ new = HLine)
    THEN Cross
    ELSE new

(* PixelState::update with the Circle and Pixel arms in the opposite order *)
update_pixel_first(cur, new) ==
    IF cur = HLine /\ new = VLine THEN Cross
    ELSE IF cur = VLine /\ new = HLine THEN Cross
    ELSE IF new = Pixel THEN Pixel
    ELSE IF cur = Pixel THEN Pixel
    ELSE IF IsCircle(new) THEN new
    ELSE IF IsCircle(cur) THEN cur
    ELSE new

(* PixelState::update: the match arms in source order *)
update(cur, new) ==
    IF cur = HLine /\ new = VLine THEN Cross
    ELSE IF cur = VLine /\ new = HLine THEN Cross
    ELSE IF IsCircle(new) THEN new
    ELSE IF IsCircle(cur) THEN cur
    ELSE IF new = Pixel THEN Pixel
    ELSE IF cur = Pixel THEN Pixel
    ELSE new

----------------------------------------------------------------------------
(* usize arithmetic.  A value is [hi, lo] and stands for hi * 2^N + lo,    *)
(* N the width of usize, with |lo| far below 2^N: every input of the model *)
(* is a small integer, so lo never carries into hi.                        *)

(* `n as usize` of an i32 (sign extension), and usize::try_from of a u32 *)
AsUsize(n) == [hi |-> IF n < 0 THEN 1 ELSE 0, lo |-> n]

UMul(a, b) == [hi |-> a.hi * b.lo + a.lo * b.hi, lo |-> a.lo * b.lo]
UAdd(a, b) == [hi |-> a.hi + b.hi, lo |-> a.lo + b.lo]

(* the exact result lies in [0, 2^N): no overflow *)
Fits(v) == (v.hi = 0 /\ v.lo >= 0) \/ (v.hi = 1 /\ v.lo < 0)

(* the result modulo 2^N *)
Wrap(v) == [hi |-> IF v.lo < 0 THEN 1 ELSE 0, lo |-> v.lo]

(* v < len for a wrapped v and a Vec length *)
ULess(v, len) == v.hi = 0 /\ v.lo < len

----------------------------------------------------------------------------
(* Canvas *)

Min(a, b) == IF a <= b THEN a ELSE b
Max(a, b) == IF a >= b THEN a ELSE b

(* i32 division: truncates toward zero *)
TruncDiv(a, b) == IF a >= 0 THEN a \div b ELSE -((-a) \div b)

(* TextDrawingBackend::new *)
new(sx, sy) == [size_x |-> sx, size_y |-> sy, pixels |-> [i \in 1..(sx * sy) |-> Empty]]

(* pos_x + pos_y * usize::try_from(self.size_x).unwrap() *)
CanvasIndex(pos_x, pos_y) ==
    LET prod == UMul(pos_y, AsUsize(size_x))
        sum == UAdd(pos_x, Wrap(prod))
    IN  [overflow |-> ~Fits(prod) \/ ~Fits(sum), index |-> Wrap(sum)]

(* TextDrawingBackend::set_state on the cells px *)
set_state_on(px, pos_x, pos_y, p) ==
    LET ix == CanvasIndex(pos_x, pos_y)
    IN  IF ix.overflow /\ overflow_checks
        THEN [pixels |-> px, res |-> "panic"]
        ELSE IF ULess(ix.index, Len(px))
        THEN [pixels |-> [px EXCEPT ![ix.index.lo + 1] = p], res |-> "ok"]
        ELSE [pixels |-> px, res |-> "ok"]

(* TextDrawingBackend::update_state on the cells px *)
update_state_on(px, pos_x, pos_y, p) ==
    LET ix == CanvasIndex(pos_x, pos_y)
    IN  IF ix.overflow /\ overflow_checks
        THEN [pixels |-> px, res |-> "panic"]
        ELSE IF ULess(ix.index, Len(px))
        THEN [pixels |-> [px EXCEPT ![ix.index.lo + 1] = update(@, p)], res |-> "ok"]
        ELSE [pixels |-> px, res |-> "ok"]

(* draw_pixel on the cells px; alpha in tenths *)
draw_pixel_on(px, pos, alpha) ==
    IF alpha > 3
    THEN update_state_on(px, AsUsize(pos[1]), AsUsize(pos[2]), Pixel)
    ELSE [pixels |-> px, res |-> "ok"]

(* self.pixels[idx as usize].update(state) for each <<idx, state>> of      *)
(* writes, in order; Vec indexing panics on the first index out of range   *)
RECURSIVE MergeRun(_, _)
MergeRun(px, writes) ==
    IF writes = <<>>
    THEN [pixels |-> px, res |-> "ok"]
    ELSE LET w == Head(writes)
         IN  IF ~ULess(AsUsize(w[1]), Len(px))
             THEN [pixels |-> px, res |-> "panic"]
             ELSE MergeRun([px EXCEPT ![w[1] + 1] = update(@, w[2])], Tail(writes))

(* plotters_backend::rasterizer::draw_line: draw_pixel on the sampled      *)
(* points pts of the segment, each with a visible colour                   *)
RECURSIVE rasterizer_draw_line(_, _)
rasterizer_draw_line(px, pts) ==
    IF pts = <<>>
    THEN [pixels |-> px, res |-> "ok"]
    ELSE LET r == draw_pixel_on(px, Head(pts), 10)
         IN  IF r.res = "ok" THEN rasterizer_draw_line(r.pixels, Tail(pts)) ELSE r

(* the <<index, state>> pairs of draw_line's vertical or horizontal loop *)
line_writes(from, to) ==
    IF from[1] = to[1]
    THEN LET y0 == Min(from[2], to[2])
             y1 == Max(from[2], to[2])
         IN  [k \in 1..(y1 - y0) |-> <<(y0 + k - 1) * Stride + from[1], VLine>>]
    ELSE LET x0 == Min(from[1], to[1])
             x1 == Max(from[1], to[1])
         IN  [k \in 1..(x1 - x0) |-> <<from[2] * Stride + (x0 + k - 1), HLine>>]

(* draw_line on the cells px; pts are the points the rasterizer samples *)
draw_line_on(px, from, to, pts) ==
    IF from[1] = to[1] \/ from[2] = to[2]
    THEN MergeRun(px, line_writes(from, to))
    ELSE rasterizer_draw_line(px, pts)

(* estimate_text_size: (text.len() as u32, 1), text.len() in bytes *)
RECURSIVE StrLen(_)
StrLen(text) == IF text = <<>> THEN 0 ELSE Utf8Len(Head(text)) + StrLen(Tail(text))

estimate_text_size(text) == <<StrLen(text), 1>>

(* draw_text's dx for the horizontal anchor *)
text_dx(h_pos, width) ==
    CASE h_pos = "Left" -> 0
      [] h_pos = "Right" -> -width
      [] h_pos = "Center" -> TruncDiv(-width, 2)

(* draw_text's dy for the vertical anchor *)
text_dy(v_pos, height) ==
    CASE v_pos = "Top" -> 0
      [] v_pos = "Center" -> TruncDiv(-height, 2)
      [] v_pos = "Bottom" -> -height

(* draw_text's offset: the linear index of the first character *)
text_offset(text, anchor, pos) ==
    LET size == estimate_text_size(text)
        dx == text_dx(anchor[1], size[1])
        dy == text_dy(anchor[2], size[2])
    IN  Max(pos[2] + dy, 0) * Stride + Max(pos[1] + dx, 0)

(* draw_text on the cells px *)
draw_text_on(px, text, anchor, pos) ==
    LET offset == text_offset(text, anchor, pos)
    IN  MergeRun(px, [k \in 1..Len(text) |-> <<offset + k - 1, Text(text[k])>>])

(* the String present() builds for row r, then the newline of writeln! *)
present_row(px, r) == [c \in 1..(size_x + 1) |->
    IF c <= size_x THEN to_char(px[r * size_x + (c - 1) + 1]) ELSE "\n"]

(* what present() has written when its loop stops before row n *)
RECURSIVE present_rows(_, _)
present_rows(px, n) ==
    IF n = 0 THEN <<>> ELSE present_rows(px, n - 1) \o present_row(px, n - 1)

----------------------------------------------------------------------------
(* Inputs of the operations *)

(* (usize, usize) positions of set_state and update_state: inside every    *)
(* canvas, past the last column, past the last row, past both              *)
UCoords == { <<0, 0>>, <<1, 1>>, <<MaxCoord, 0>>, <<0, MaxRow>>, <<MaxCoord, MaxRow>> }

(* (i32, i32) positions of draw_pixel *)
ICoords == { <<1, 0>>, <<-1, 0>>, <<-1, 1>>, <<MaxCoord, -1>>, <<MaxCoord, 0>>,
             <<0, MaxRow>> }

(* alpha of a colour, in tenths: 0.3 and 0.4, either side of the threshold *)
Alphas == {3, 4}

(* the states handed to set_state (update_state takes every PixelState) *)
SetStates == { Empty, HLine, Pixel, Circle(FALSE) }

(* draw_line segments <<from, to>> *)
Lines ==
    { <<<<1, 0>>, <<1, 1>>>>,  <<<<1, 1>>, <<1, 0>>>>,        \* vertical, row 0
      <<<<0, 0>>, <<0, MaxRow>>>>,                            \* vertical, rows 0..
      <<<<1, 1>>, <<1, 1>>>>,                                 \* no length
      <<<<0, 0>>, <<2, 0>>>>,  <<<<2, 0>>, <<0, 0>>>>,        \* horizontal, row 0
      <<<<1, 0>>, <<MaxCoord + 2, 0>>>>,                      \* horizontal, long
      <<<<0, 1>>, <<2, 1>>>>,                                 \* horizontal, row 1
      <<<<-1, 0>>, <<1, 0>>>>,  <<<<0, -1>>, <<0, 1>>>>,      \* from outside
      <<<<0, 0>>, <<1, 1>>>>,  <<<<2, 1>>, <<0, 0>>>> }       \* diagonal

(* the canvas cells inside the bounding box of a segment *)
BoxCells(from, to) ==
    { p \in (0..(size_x - 1)) \X (0..(size_y - 1)) :
        /\ Min(from[1], to[1]) <= p[1] /\ p[1] <= Max(from[1], to[1])
        /\ Min(from[2], to[2]) <= p[2] /\ p[2] <= Max(from[2], to[2]) }

(* the point sequences the rasterizer may sample for a segment: its two    *)
(* ends, clipped to the canvas, or nothing                                 *)
Samples(from, to) ==
    IF from[1] = to[1] \/ from[2] = to[2]
    THEN { <<>> }
    ELSE { <<>> } \cup { <<p>> : p \in BoxCells(from, to) \cap {from, to} }

Texts == { <<>>, <<"h", "i">>, <<"é", "h">> }
Anchors == { <<"Left", "Top">>, <<"Center", "Center">>, <<"Right", "Bottom">>,
             <<"Right", "Top">> }
TextPos == { <<0, 0>>, <<2, 0>>, <<1, 1>>, <<-1, 0>>, <<MaxCoord, 0>> }

----------------------------------------------------------------------------
(* The state machine *)

Init ==
    /\ \E sz \in Sizes :
        /\ size_x = new(sz[1], sz[2]).size_x
        /\ size_y = new(sz[1], sz[2]).size_y
        /\ pixels = new(sz[1], sz[2]).pixels
        /\ prev = new(sz[1], sz[2]).pixels
    /\ overflow_checks \in BOOLEAN
    /\ last = [op |-> "new", args |-> <<>>, res |-> "ok"]
    /\ out = <<>>
    /\ presented = 0
    /\ aborted = FALSE
    /\ nops = 0

(* an operation op(args) that leaves the cells r.pixels and ends as r.res *)
Step(op, args, r) ==
    /\ ~aborted
    /\ nops < MaxOps
    /\ pixels' = r.pixels
    /\ prev' = pixels
    /\ last' = [op |-> op, args |-> args, res |-> r.res]
    /\ aborted' = (r.res = "panic")
    /\ nops' = nops + 1
    /\ UNCHANGED <<size_x, size_y, overflow_checks>>

set_state(pos_x, pos_y, p) ==
    /\ Step("set_state", <<pos_x, pos_y, p>>,
            set_state_on(pixels, AsUsize(pos_x), AsUsize(pos_y), p))
    /\ presented' = 0
    /\ UNCHANGED out

update_state(pos_x, pos_y, p) ==
    /\ Step("update_state", <<pos_x, pos_y, p>>,
            update_state_on(pixels, AsUsize(pos_x), AsUsize(pos_y), p))
    /\ presented' = 0
    /\ UNCHANGED out

draw_pixel(pos, alpha) ==
    /\ Step("draw_pixel", <<pos, alpha>>, draw_pixel_on(pixels, pos, alpha))
    /\ presented' = 0
    /\ UNCHANGED out

draw_line(from, to, pts) ==
    /\ Step("draw_line", <<from, to, pts>>, draw_line_on(pixels, from, to, pts))
    /\ presented' = 0
    /\ UNCHANGED out

draw_text(text, anchor, pos) ==
    /\ Step("draw_text", <<text, anchor, pos>>, draw_text_on(pixels, text, anchor, pos))
    /\ presented' = 0
    /\ UNCHANGED out

(* present() that also clears the canvas it has written *)
present_on_clearing(px, failAt) ==
    [pixels |-> [i \in 1..Len(px) |-> Empty],
     res |-> IF failAt < size_y THEN "io_error" ELSE "ok",
     out |-> present_rows(px, failAt)]

(* present(): rows 0..failAt-1 are written, then writeln! fails at row      *)
(* failAt; failAt = size_y is the run without an I/O failure.  out is what  *)
(* the rows hand to the BufWriter; its flush to stderr when it is dropped   *)
(* is not modelled.                                                         *)
present_on(px, failAt) ==
    [pixels |-> px, res |-> IF failAt < size_y THEN "io_error" ELSE "ok",
     out |-> present_rows(px, failAt)]

present(failAt) ==
    /\ Step("present", <<failAt>>, present_on(pixels, failAt))
    /\ out' = present_on(pixels, failAt).out
    /\ presented' = IF failAt < size_y THEN 0 ELSE presented + 1

Next ==
    \/ \E c \in UCoords, p \in SetStates : set_state(c[1], c[2], p)
    \/ \E c \in UCoords, p \in PixelState : update_state(c[1], c[2], p)
    \/ \E pos \in ICoords, alpha \in Alphas : draw_pixel(pos, alpha)
    \/ \E l \in Lines : \E pts \in Samples(l[1], l[2]) : draw_line(l[1], l[2], pts)
    \/ \E text \in Texts, anchor \in Anchors, pos \in TextPos :
        draw_text(text, anchor, pos)
    \/ \E failAt \in 0..size_y : present(failAt)

Spec == Init /\ [][Next]_vars

----------------------------------------------------------------------------
(* Properties *)

(* cell (x, y) of the cells px of the canvas *)
CellAt(px, x, y) == px[y * size_x + x + 1]

InCanvas(x, y) == 0 <= x /\ x < size_x /\ 0 <= y /\ y < size_y

(* the merge priority of section 3 of the specification *)
Priority(s) ==
    CASE s = Empty -> 0
      [] s = HLine \/ s = VLine -> 1
      [] s = Cross -> 2
      [] s = Pixel -> 3
      [] IsText(s) \/ IsCircle(s) -> 4

IsFinal(s) == s = Pixel \/ IsText(s) \/ IsCircle(s)

(* the glyph table of section 4.1 of the specification *)
toDisplayChar(s) ==
    CASE s = Empty -> " "
      [] s = HLine -> "-"
      [] s = VLine -> "|"
      [] s = Cross -> "+"
      [] s = Pixel -> "."
      [] s[1] = "Text" -> s[2]
      [] s = Circle(TRUE) -> "@"
      [] s = Circle(FALSE) -> "O"

(* C1: set_state and update_state at (x, y) with x >= W or y >= H leave    *)
(* every cell unchanged and do not raise.                                  *)
C1_OutOfCanvasWriteIsNoOp ==
    (last.op \in {"set_state", "update_state"}
        /\ (last.args[1] >= size_x \/ last.args[2] >= size_y))
    => (pixels = prev /\ last.res = "ok")

(* C2: a vertical (horizontal) line whose ends lie inside the canvas       *)
(* merges VLine (HLine) into exactly the cells of its column (row) in the  *)
(* half-open range between its ends, and changes no other cell.            *)
C2_AxisLineCells ==
    (last.op = "draw_line"
        /\ (last.args[1][1] = last.args[2][1] \/ last.args[1][2] = last.args[2][2])
        /\ InCanvas(last.args[1][1], last.args[1][2])
        /\ InCanvas(last.args[2][1], last.args[2][2]))
    => LET from == last.args[1]
           to == last.args[2]
           vertical == from[1] = to[1]
           onLine(x, y) ==
               IF vertical
               THEN x = from[1] /\ Min(from[2], to[2]) <= y /\ y < Max(from[2], to[2])
               ELSE y = from[2] /\ Min(from[1], to[1]) <= x /\ x < Max(from[1], to[1])
       IN  /\ last.res = "ok"
           /\ \A x \in 0..(size_x - 1), y \in 0..(size_y - 1) :
                CellAt(pixels, x, y) =
                    IF onLine(x, y)
                    THEN update(CellAt(prev, x, y), IF vertical THEN VLine ELSE HLine)
                    ELSE CellAt(prev, x, y)

(* C3: text c_0..c_(n-1) with Left/Top anchor at an in-canvas (px, py)     *)
(* with px + n <= W merges Text(c_i) into cell (px + i, py) for every i    *)
(* and changes no other cell.                                              *)
C3_LeftTopTextCells ==
    (last.op = "draw_text"
        /\ last.args[2] = <<"Left", "Top">>
        /\ InCanvas(last.args[3][1], last.args[3][2])
        /\ last.args[3][1] + Len(last.args[1]) <= size_x)
    => LET text == last.args[1]
           pos == last.args[3]
       IN  /\ last.res = "ok"
           /\ \A x \in 0..(size_x - 1), y \in 0..(size_y - 1) :
                CellAt(pixels, x, y) =
                    IF y = pos[2] /\ pos[1] <= x /\ x < pos[1] + Len(text)
                    THEN update(CellAt(prev, x, y), Text(text[x - pos[1] + 1]))
                    ELSE CellAt(prev, x, y)

(* C4: no draw operation raises because of its coordinates: the only       *)
(* failure an operation reports is the I/O failure of present(), and a     *)
(* draw_pixel outside the grid is dropped.                                 *)
C4_DrawNeverRaises ==
    /\ last.res # "ok" => (last.op = "present" /\ last.res = "io_error")
    /\ (last.op = "draw_pixel" /\ ~InCanvas(last.args[1][1], last.args[1][2]))
        => pixels = prev

(* C5: the priority of merge(current, incoming) is the higher of the two   *)
(* priorities; HLine with VLine, in either order, gives Cross.             *)
C5_MergeTakesHigherPriority ==
    (last.op = "update_state" /\ InCanvas(last.args[1], last.args[2]))
    => LET cur == CellAt(prev, last.args[1], last.args[2])
           inc == last.args[3]
           res == CellAt(pixels, last.args[1], last.args[2])
       IN  IF {cur, inc} = {HLine, VLine}
           THEN res = Cross
           ELSE Priority(res) = Max(Priority(cur), Priority(inc))

C7_FirstCharAtAnchoredOrigin ==
    (last.op = "draw_text" /\ last.args[1] # <<>>)
    => LET text == last.args[1]
           width == Len(text)
           dx == CASE last.args[2][1] = "Left" -> 0
                   [] last.args[2][1] = "Right" -> -width
                   [] last.args[2][1] = "Center" -> -(width \div 2)
           dy == CASE last.args[2][2] = "Top" -> 0
                   [] last.args[2][2] = "Center" -> 0
                   [] last.args[2][2] = "Bottom" -> -1
           originX == Max(0, last.args[3][1] + dx)
           originY == Max(0, last.args[3][2] + dy)
       IN  InCanvas(originX, originY)
           => CellAt(pixels, originX, originY)
                = update(CellAt(prev, originX, originY), Text(text[1]))

C9_PresentReadOnly ==
    [][last'.op = "present" =>
        /\ pixels' = pixels /\ size_x' = size_x /\ size_y' = size_y
        /\ (presented >= 1 /\ last'.res = "ok") => out' = out]_vars

(* a second successful present() in a row that emits rows of glyphs *)
C9_Witness ==
    /\ last.op = "present" /\ last.res = "ok"
    /\ presented = 2
    /\ size_x > 0 /\ size_y > 0
    /\ Len(out) = size_y * (size_x + 1)

(* C10: under every operation but set_state a cell that holds Pixel or a   *)
(* Circle still holds Pixel or a Circle afterwards, and a Circle stays a   *)
(* Circle, changed only by update_state merging another Circle.            *)
C10_PixelCircleAbsorbing ==
    last.op # "set_state"
    => \A i \in 1..Len(prev) :
        /\ (prev[i] = Pixel \/ IsCircle(prev[i]))
            => (pixels[i] = Pixel \/ IsCircle(pixels[i]))
        /\ IsCircle(prev[i])
            => /\ IsCircle(pixels[i])
               /\ pixels[i] # prev[i]
                    => (last.op = "update_state" /\ IsCircle(last.args[3]))

(* a line or a text drawn over a cell that holds a Circle *)
C10_Witness ==
    /\ last.res = "ok"
    /\ \/ /\ last.op = "draw_text"
          /\ \E k \in 1..Len(last.args[1]) :
                IsCircle(prev[text_offset(last.args[1], last.args[2], last.args[3]) + k])
       \/ /\ last.op = "draw_line"
          /\ (last.args[1][1] = last.args[2][1] \/ last.args[1][2] = last.args[2][2])
          /\ \E k \in 1..Len(line_writes(last.args[1], last.args[2])) :
                IsCircle(prev[line_writes(last.args[1], last.args[2])[k][1] + 1])

====
